---------------------------- MODULE Spec2Model ----------------------------
(***************************************************************************)
(* The Kubernetes routes of the debugging backend                          *)
(* (app/backend/routes/kubernetes.py): the shared API client, the pod      *)
(* listing pipeline (fetch, filter, normalise, sort, paginate, truncation  *)
(* policy) and the guarded pod deletion.                                   *)
(*                                                                         *)
(* The handlers are `async def` functions that never await: one request   *)
(* runs to completion before the event loop starts the next, so a single   *)
(* program counter pc describes the process.  A handler is cut into steps  *)
(* at its calls to the cluster API, the only places where the world        *)
(* outside the process (the cluster) can be observed or can move.          *)
(*                                                                         *)
(* Strings that the code only compares are strings here; strings that the  *)
(* code orders (sort keys) are numbers whose order is the order of the     *)
(* strings they stand for.  A formatted message is the tuple of its fixed  *)
(* text and its interpolated parts.                                        *)
(***************************************************************************)
EXTENDS Integers, Sequences, FiniteSets, TLC

VARIABLES
    world,                  \* the content of the cluster the list calls see
    kubernetes_client,      \* _kubernetes_client: <<>> (None) or <<handle>>
    clients_created,        \* how many CoreV1Api handles were constructed
    tried,                  \* config loaders attempted by the step just taken
    last_slow_request_time, \* _last_slow_request_time: None or a timestamp
    pc,                     \* where the process is
    req,                    \* the request being handled
    namespaces,             \* get_kubernetes_pods: parsed namespace list
    statuses,               \* get_kubernetes_pods: parsed status list
    field_selector,         \* get_kubernetes_pods: the selector clauses
    ns_index,               \* get_kubernetes_pods: position of the for loop
    all_pods,               \* get_kubernetes_pods: raw pods accumulated
    max_limit_reached,      \* get_kubernetes_pods: the truncation flag
    pods,                   \* get_kubernetes_pods: processed, sorted records
    list_calls,             \* list calls issued by the request, in order
    cluster_raised,         \* what list_pod_for_all_namespaces raised
    fan_out_raised,         \* what each list_namespaced_pod raised, in order
    pod_phase,              \* cluster-side phase of the pod a delete names
    read_phase,             \* delete_kubernetes_pod: pod_phase as read
    read_raised,            \* delete_kubernetes_pod: what the read raised
    delete_calls,           \* delete calls issued by the request, in order
    aiohttp_session,        \* routes/networking.py _aiohttp_session
    health_session,         \* routes/main.py _health_session
    relay_session,          \* make_http_request: the session it obtained
    outbound,               \* HTTP requests sent by the handler, in order
    health_status,          \* health_check: the dict being filled
    response                \* what the handler returned

vars == <<world, kubernetes_client, clients_created, tried,
          last_slow_request_time, pc, req, namespaces, statuses,
          field_selector, ns_index, all_pods, max_limit_reached, pods,
          list_calls, cluster_raised, fan_out_raised,
          pod_phase, read_phase, read_raised, delete_calls,
          aiohttp_session, health_session, relay_session, outbound,
          health_status, response>>

\* Python's None where the other values are strings.
None == "None"

Min(a, b) == IF a <= b THEN a ELSE b
Max(a, b) == IF a >= b THEN a ELSE b

(***************************************************************************)
(* Program constants.                                                      *)
(***************************************************************************)
\* The literal 1000 of the fetch cap, the cluster-wide limit, the
\* truncation threshold and the reported total.
MaxPods == 1000
\* page_size * 10 in the cluster-wide limit and in max_fetch_limit.
FetchFactor == 10
\* Query(50, ge=1, le=3000) on page_size.
MaxPageSize == 3000

(***************************************************************************)
(* Bounds of the model.                                                    *)
(***************************************************************************)
MaxPage == 3
\* The longest list on which the order of equal keys is compared record
\* by record.
MaxStableLen == 20

(***************************************************************************)
(* Sort keys.  Python orders the strings; the model orders their ranks.    *)
(* Phase strings in lexicographic order: Failed < Pending < Running <      *)
(* Succeeded < Unknown.  Namespaces "a" < "b".  Pod names are the          *)
(* fixed-width decimal numerals of 0 .. 999, ordered as the numbers.       *)
(***************************************************************************)
Phases == <<"Failed", "Pending", "Running", "Succeeded", "Unknown">>
PhaseSet == {Phases[i] : i \in 1..Len(Phases)}
PhaseRank(p) == CHOOSE i \in 1..Len(Phases) : Phases[i] = p

Namespaces == <<"a", "b">>
NamespaceSet == {Namespaces[i] : i \in 1..Len(Namespaces)}
NamespaceRank(n) == CHOOSE i \in 1..Len(Namespaces) : Namespaces[i] = n


(***************************************************************************)
(* The cluster, seen through the list calls.  A world gives each namespace *)
(* a run of pods named by consecutive numerals; the phase of a pod follows *)
(* a cycle along the run.  "Tiny" holds pods c in namespace a and a, b in  *)
(* namespace b, all Running with one ready container; "Large" holds        *)
(* MaxPods - 1 pods in a and MaxPods pods in b with mixed attributes.      *)
(***************************************************************************)
Worlds == {"Tiny", "Large"}

Population(w, ns) ==
    IF w = "Tiny" THEN (IF ns = "a" THEN 1 ELSE 2)
    ELSE (IF ns = "a" THEN MaxPods - 1 ELSE MaxPods)

FirstName(w, ns) == IF w = "Tiny" /\ ns = "a" THEN 2 ELSE 0

PhaseCycle(w) == IF w = "Tiny" THEN <<"Running">> ELSE Phases

PhaseOffset(w, ns) == IF ns = "a" THEN 2 ELSE 0

PhaseAt(w, ns, i) ==
    PhaseCycle(w)[((i + PhaseOffset(w, ns)) % Len(PhaseCycle(w))) + 1]

Ready(status) == [type |-> "Ready", status |-> status]
Scheduled == [type |-> "PodScheduled", status |-> "True"]

\* The i-th pod (from 0) of namespace ns: the fields of V1Pod the handler reads.
PodAt(w, ns, i) ==
    [name |-> FirstName(w, ns) + i,
     namespace |-> ns,
     phase |-> PhaseAt(w, ns, i),
     creation_timestamp |-> IF w = "Tiny" THEN 1 ELSE i % 3,
     containers |-> IF w = "Tiny" THEN 1 ELSE i % 3,
     conditions |-> IF w = "Tiny" THEN <<Ready("True")>>
                    ELSE CASE i % 4 = 0 -> <<Ready("True")>>
                           [] i % 4 = 1 -> <<Ready("False")>>
                           [] i % 4 = 2 -> <<>>
                           [] OTHER -> <<Scheduled, Ready("True")>>,
     restart_counts |-> IF w = "Tiny" THEN <<0>>
                        ELSE CASE i % 3 = 0 -> <<>>
                               [] i % 3 = 1 -> <<1>>
                               [] OTHER -> <<1, 2>>]

\* Positions in the cycle whose phase the selector asks for.
Residues(w, ns, selector) ==
    {r \in 0..(Len(PhaseCycle(w)) - 1) : PhaseAt(w, ns, r) = selector[1][2]}

\* list_namespaced_pod as the API server answers it: the first `limit`
\* pods of the namespace, in name order, that match the field selector
\* (<<>> for no selector, else the one clause <<"status.phase", s>>).
NamespacedPods(w, ns, selector, limit) ==
    IF selector = <<>>
    THEN [j \in 1..Min(limit, Population(w, ns)) |-> PodAt(w, ns, j - 1)]
    ELSE IF Residues(w, ns, selector) = {} THEN <<>>
    ELSE LET r == CHOOSE x \in Residues(w, ns, selector) : TRUE
             period == Len(PhaseCycle(w))
             count == IF r < Population(w, ns)
                      THEN ((Population(w, ns) - 1 - r) \div period) + 1
                      ELSE 0
         IN [j \in 1..Min(limit, count) |-> PodAt(w, ns, r + period * (j - 1))]

\* list_pod_for_all_namespaces: the same over the namespaces in order.
Take(s, n) == SubSeq(s, 1, Min(n, Len(s)))

ClusterPods(w, selector, limit) ==
    Take(NamespacedPods(w, "a", selector, limit)
         \o NamespacedPods(w, "b", selector, limit), limit)

(***************************************************************************)
(* get_kubernetes_client.  loaders[i] says whether the i-th config loader  *)
(* succeeds (TRUE) or raises ConfigException.  The result is the handle,   *)
(* the number of handles constructed and the loaders attempted, each with  *)
(* what it answered.                                                       *)
(***************************************************************************)
ConfigLoaders == <<"load_incluster_config", "load_kube_config", "load_config">>
LoaderOutcomes == [1..Len(ConfigLoaders) -> BOOLEAN]

\* Discovery that goes through the three loaders whatever they answer.
LastLoader(loaders) == Len(ConfigLoaders)

\* The loader at which `config_loaded` becomes True, or the last one.
FirstLoaded(loaders) ==
    IF \E i \in DOMAIN loaders : loaders[i]
    THEN CHOOSE i \in DOMAIN loaders :
             loaders[i] /\ \A j \in 1..(i - 1) : ~loaders[j]
    ELSE Len(ConfigLoaders)

\* A client that is built anew by every call.
get_kubernetes_client_unshared(current, created, loaders) ==
    [client |-> <<created + 1>>,
     created |-> created + 1,
     tried |-> [i \in 1..FirstLoaded(loaders) |->
                   [loader |-> ConfigLoaders[i], loaded |-> loaders[i]]]]

get_kubernetes_client(current, created, loaders) ==
    IF current = <<>>
    THEN [client |-> <<created + 1>>,
          created |-> created + 1,
          tried |-> [i \in 1..FirstLoaded(loaders) |->
                        [loader |-> ConfigLoaders[i], loaded |-> loaders[i]]]]
    ELSE [client |-> current, created |-> created, tried |-> <<>>]

(***************************************************************************)
(* get_kubernetes_pods: the pure parts of the pipeline.                    *)
(***************************************************************************)
Range(s) == {s[i] : i \in DOMAIN s}

\* A comma-separated filter is the sequence of its stripped entries; the
\* empty ones are dropped, and a missing or empty filter gives the empty list.
ParseFilter(filter) == SelectSeq(filter, LAMBDA e : e # "")

\* A selector on the first status whenever there is one.
FieldSelectorOfFirst(sts) ==
    IF sts # <<>> THEN << <<"status.phase", sts[1]>> >> ELSE <<>>

\* One status: the server-side selector status.phase=<s>; otherwise none.
FieldSelector(sts) ==
    IF Len(sts) = 1 THEN << <<"status.phase", sts[1]>> >> ELSE <<>>

\* A cluster-wide limit without the cap.
ClusterLimitUncapped(page_size) == page_size * FetchFactor

\* limit= of the cluster-wide call, and max_fetch_limit of the pagination.
ClusterLimit(page_size) == Min(page_size * FetchFactor, MaxPods)
MaxFetchLimit(page_size) == Min(page_size * FetchFactor, MaxPods)

\* A filter that is skipped when several statuses are asked for.
StatusKeptForOneStatus(pod, sts) ==
    Len(sts) # 1 \/ pod.phase \in Range(sts)

\* `if statuses and pod.status.phase not in statuses: continue`
StatusKept(pod, sts) == sts = <<>> \/ pod.phase \in Range(sts)

RECURSIVE Sum(_)
Sum(s) == IF s = <<>> THEN 0 ELSE s[1] + Sum(Tail(s))

ReadyCount(pod) ==
    IF \E i \in DOMAIN pod.conditions :
           pod.conditions[i].type = "Ready" /\ pod.conditions[i].status = "True"
    THEN pod.containers
    ELSE 0

\* A record whose healthy does not look at the phase.
PodInfoHealthyWhenReady(pod) ==
    [id |-> <<pod.namespace, "-", pod.name>>,
     name |-> pod.name,
     namespace |-> pod.namespace,
     created_timestamp |-> pod.creation_timestamp,
     phase |-> pod.phase,
     healthy |-> (ReadyCount(pod) = pod.containers),
     ready |-> <<ReadyCount(pod), "/", pod.containers>>,
     restart_count |-> Sum(pod.restart_counts)]

\* PodInfo(...) built from one raw pod.  id and ready are the parts of the
\* formatted strings; created_timestamp 0 is "" (no creation timestamp).
PodInfo(pod) ==
    [id |-> <<pod.namespace, "-", pod.name>>,
     name |-> pod.name,
     namespace |-> pod.namespace,
     created_timestamp |-> pod.creation_timestamp,
     phase |-> pod.phase,
     healthy |-> (ReadyCount(pod) = pod.containers /\ pod.phase = "Running"),
     ready |-> <<ReadyCount(pod), "/", pod.containers>>,
     restart_count |-> Sum(pod.restart_counts)]

\* The loop over all_pods: filter, then normalise, in fetch order.
ProcessPods(raw, sts) ==
    LET kept == SelectSeq(raw, LAMBDA pod : StatusKept(pod, sts))
    IN [i \in 1..Len(kept) |-> PodInfo(kept[i])]

\* An else branch that sorts by namespace.
SortKeyElseNamespace(sort_by, p) ==
    CASE sort_by = "name" -> p.name
      [] sort_by = "namespace" -> NamespaceRank(p.namespace)
      [] sort_by = "phase" -> PhaseRank(p.phase)
      [] sort_by = "created_timestamp" -> p.created_timestamp
      [] sort_by = "restart_count" -> p.restart_count
      [] OTHER -> NamespaceRank(p.namespace)

\* The key the chosen branch of the if/elif chain sorts by, as a number.
SortKey(sort_by, p) ==
    CASE sort_by = "name" -> p.name
      [] sort_by = "namespace" -> NamespaceRank(p.namespace)
      [] sort_by = "phase" -> PhaseRank(p.phase)
      [] sort_by = "created_timestamp" -> p.created_timestamp
      [] sort_by = "restart_count" -> p.restart_count
      [] OTHER -> p.name

\* Decimal digits that hold every value of the key.
KeyWidth(sort_by) ==
    IF sort_by \in {"namespace", "phase", "created_timestamp", "restart_count"}
    THEN 1 ELSE 3

\* list.sort(key=..., reverse=...) is stable in both directions: the result
\* is the one ordering by key that keeps equal keys in their input order.
\* It is computed digit by digit, least significant first, each pass a
\* stable distribution into the ten digit buckets.
RECURSIVE DigitBuckets(_, _, _, _, _, _)
DigitBuckets(s, sort_by, unit, digit, step, left) ==
    IF left = 0 THEN <<>>
    ELSE SelectSeq(s, LAMBDA p : (SortKey(sort_by, p) \div unit) % 10 = digit)
         \o DigitBuckets(s, sort_by, unit, digit + step, step, left - 1)

RECURSIVE DigitPasses(_, _, _, _, _)
DigitPasses(s, sort_by, unit, width, reverse) ==
    IF width = 0 THEN s
    ELSE DigitPasses(
             IF reverse THEN DigitBuckets(s, sort_by, unit, 9, -1, 10)
                        ELSE DigitBuckets(s, sort_by, unit, 0, 1, 10),
             sort_by, unit * 10, width - 1, reverse)

\* Descending as the ascending result read backwards: equal keys come
\* out in the reverse of their input order.
SortPodsBackwards(records, sort_by, sort_order) ==
    LET up == DigitPasses(records, sort_by, 1, KeyWidth(sort_by), FALSE)
    IN IF sort_order = "desc"
       THEN [i \in 1..Len(up) |-> up[Len(up) + 1 - i]]
       ELSE up

\* Lines 324-338.
SortPods(records, sort_by, sort_order) ==
    DigitPasses(records, sort_by, 1, KeyWidth(sort_by), sort_order = "desc")

\* A slice that starts one element late.
SliceFromNext(s, start_idx, end_idx) ==
    SubSeq(s, start_idx + 2, Min(end_idx + 1, Len(s)))

\* pods[start_idx:end_idx]
Slice(s, start_idx, end_idx) == SubSeq(s, start_idx + 1, Min(end_idx, Len(s)))

\* The reported total without the branch of lines 348-350.
TotalItemsOfFilteredList(filtered, raw, page_size, fetch_flag) ==
    IF fetch_flag THEN Max(MaxPods, filtered) ELSE filtered

\* Lines 340-353: the reported total and the flag after the truncation policy.
TotalItems(filtered, raw, page_size, fetch_flag) ==
    IF raw >= MaxFetchLimit(page_size) THEN MaxPods
    ELSE IF fetch_flag THEN Max(MaxPods, filtered)
    ELSE filtered

\* The flag of the fetch stage alone.
LimitReachedAtFetch(raw, page_size, fetch_flag) == fetch_flag

LimitReached(raw, page_size, fetch_flag) ==
    raw >= MaxFetchLimit(page_size) \/ fetch_flag

\* The quotient rounded down.
TotalPagesRoundedDown(total_items, page_size) ==
    IF total_items > 0 THEN total_items \div page_size ELSE 1

\* Lines 355-357.
TotalPages(total_items, page_size) ==
    IF total_items > 0 THEN (total_items + page_size - 1) \div page_size ELSE 1

\* `<=` in the place of `<`.
HasNextInclusive(end_idx, total_items) == end_idx <= total_items

\* Line 358.
HasNext(end_idx, total_items) == end_idx < total_items

\* Lines 340-393: paginate the sorted list, assemble the response.
PodsResponse(r, sorted, raw, fetch_flag) ==
    LET start_idx == (r.page - 1) * r.page_size
        end_idx == start_idx + r.page_size
        total_items == TotalItems(Len(sorted), raw, r.page_size, fetch_flag)
        flag == LimitReached(raw, r.page_size, fetch_flag)
    IN [kind |-> "KubernetesResponse",
        pods |-> Slice(sorted, start_idx, end_idx),
        pagination |-> [page |-> r.page,
                        page_size |-> r.page_size,
                        total_items |-> total_items,
                        total_pages |-> TotalPages(total_items, r.page_size),
                        has_next |-> HasNext(end_idx, total_items),
                        has_previous |-> r.page > 1,
                        max_limit_reached |-> flag],
        error |-> <<>>,
        max_limit_reached |-> flag]

\* The mapping without the branch for 403.
ApiErrorMessageWithout403(status, reason) ==
    CASE status = 404 -> <<"Kubernetes API server not found.">>
      [] status = 401 -> <<"Unauthorized access to Kubernetes API.">>
      [] status = 500 -> <<"Kubernetes API server internal error.">>
      [] OTHER -> <<"Kubernetes API error (", status, "): ", reason>>

\* Lines 395-424: the message chosen by the status of an ApiException.
ApiErrorMessage(status, reason) ==
    CASE status = 404 -> <<"Kubernetes API server not found.">>
      [] status = 401 -> <<"Unauthorized access to Kubernetes API.">>
      [] status = 403 -> <<"Forbidden access to Kubernetes API.">>
      [] status = 500 -> <<"Kubernetes API server internal error.">>
      [] OTHER -> <<"Kubernetes API error (", status, "): ", reason>>

\* The keywords looked for in the order timeout, connection, certificate.
ExceptionMessageTimeoutFirst(text) ==
    IF "timeout" \in text
    THEN <<"Timeout connecting to Kubernetes API server.">>
    ELSE IF "connection" \in text
    THEN <<"Unable to connect to Kubernetes API server.">>
    ELSE IF "certificate" \in text
    THEN <<"SSL/TLS certificate error when connecting to Kubernetes API.">>
    ELSE <<"Failed to get Kubernetes pods: ", text>>

\* Lines 425-450: the message chosen by the text of any other exception.
\* The text of an exception is the set of keywords its lower-cased
\* message contains.
ExceptionMessage(text) ==
    IF "connection" \in text
    THEN <<"Unable to connect to Kubernetes API server.">>
    ELSE IF "timeout" \in text
    THEN <<"Timeout connecting to Kubernetes API server.">>
    ELSE IF "certificate" \in text
    THEN <<"SSL/TLS certificate error when connecting to Kubernetes API.">>
    ELSE <<"Failed to get Kubernetes pods: ", text>>

ErrorResponse(message) ==
    [kind |-> "KubernetesResponse",
     pods |-> <<>>,
     pagination |-> <<>>,
     error |-> message,
     max_limit_reached |-> FALSE]

(***************************************************************************)
(* delete_kubernetes_pod: the responses.                                   *)
(***************************************************************************)
\* A guard that forgets the completed pods.
RunningOnly == {"Running"}

\* Line 505.
ProtectedPhases == {"Running", "Succeeded"}

DeletePodResponse(success, message, error) ==
    [kind |-> "DeletePodResponse", success |-> success, message |-> message,
     error |-> error]

\* Lines 505-521.
DeniedResponse(r, phase) ==
    DeletePodResponse(FALSE, <<"Cannot delete pod">>,
        <<"Cannot delete pod ", r.name, " in namespace ", r.namespace,
          ". Pod is in '", phase, "' phase.">>)

\* The ApiException of the phase read without the branch of line 525.
PhaseCheckFailedAnyStatus(r, status, reason) ==
    DeletePodResponse(FALSE, <<"Failed to check pod phase">>,
        <<"Failed to check pod phase: ", reason>>)

\* Lines 523-553: the ApiException of the phase read.
PhaseCheckFailedResponse(r, status, reason) ==
    IF status = 404
    THEN DeletePodResponse(FALSE, <<"Pod not found">>,
             <<"Pod ", r.name, " not found in namespace ", r.namespace>>)
    ELSE DeletePodResponse(FALSE, <<"Failed to check pod phase">>,
             <<"Failed to check pod phase: ", reason>>)

\* A deletion reported with success = False.
DeletedReportedFailed(r) ==
    DeletePodResponse(FALSE,
        <<"Pod ", r.name, " in namespace ", r.namespace,
          " deleted successfully">>, <<>>)

\* Lines 563-577.
DeletedResponse(r) ==
    DeletePodResponse(TRUE,
        <<"Pod ", r.name, " in namespace ", r.namespace,
          " deleted successfully">>, <<>>)

\* Lines 579-595: the ApiException of the delete call.
DeleteFailedResponse(reason) ==
    DeletePodResponse(FALSE, <<"Failed to delete pod">>,
        <<"Failed to delete pod: ", reason>>)

\* Lines 597-611: any other exception raised inside the outer try, by the
\* phase read or by the delete call.
UnexpectedFailureResponse(text) ==
    DeletePodResponse(FALSE, <<"Failed to delete pod">>,
        <<"Failed to delete Kubernetes pod: ", text>>)

(***************************************************************************)
(* What the world outside sends and answers.                               *)
(***************************************************************************)
SortFields == {"name", "namespace", "phase", "created_timestamp",
               "restart_count", "node_name"}
SortOrders == {"asc", "desc"}

NamespaceFilters ==
    {<<>>} \cup {<<n>> : n \in NamespaceSet}
           \cup {<<n, m>> : n \in NamespaceSet, m \in NamespaceSet}

StatusFilters == {<<>>, <<"Running">>, <<"Running", "Failed">>}

\* Every combination on pages of one or two pods; pages of MaxPods pods
\* with the default ordering.
PodsRequests ==
    [page : 1..MaxPage, page_size : {1, 2},
     sort_by : SortFields, sort_order : SortOrders,
     namespace_filter : NamespaceFilters, status_filter : StatusFilters]
    \cup
    [page : 1..MaxPage, page_size : {MaxPods},
     sort_by : {"name"}, sort_order : {"asc"},
     namespace_filter : NamespaceFilters, status_filter : StatusFilters]

DeleteRequests == [name : {"web-0"}, namespace : {"a"}]

ApiStatuses == {401, 403, 404, 500, 503}

ApiReason(status) ==
    CASE status = 401 -> "Unauthorized"
      [] status = 403 -> "Forbidden"
      [] status = 404 -> "Not Found"
      [] status = 500 -> "Internal Server Error"
      [] OTHER -> "Service Unavailable"

ExceptionTexts == {{}, {"connection"}, {"timeout"}, {"certificate"},
                   {"connection", "timeout"}}

\* What the cluster holds for the pod a delete request names.
PodStates == PhaseSet \cup {"Absent"}

NoRequest == [kind |-> "none"]
NoResponse == [kind |-> "none"]

(***************************************************************************)
(* routes/networking.py make_http_request and routes/main.py health_check: *)
(* the pure parts.  A URL string is the sequence of its parts: the scheme, *)
(* "://", the host, then ":" and a port if there is one, then "/" and the  *)
(* rest of the path if there is a path.                                    *)
(***************************************************************************)
UrlString(u) ==
    <<u.scheme, "://", u.host>>
    \o (IF u.port = "" THEN <<>> ELSE <<":", u.port>>)
    \o u.path

\* helpers/networking.py IMDS_PATTERNS: ^http://<host>/.*$ as the parts
\* the string has to begin with.
IMDS_PATTERNS ==
    << <<"http", "://", "169.254.169.254", "/">>,
       <<"http", "://", "[fd00:ec2::254]", "/">>,
       <<"http", "://", "metadata.google.internal", "/">> >>

\* re.match(pattern, url): the pattern matches from the start of the
\* string; .*$ takes whatever follows the "/".
re_match(pattern, url) ==
    /\ Len(url) >= Len(pattern)
    /\ SubSeq(url, 1, Len(pattern)) = pattern

\* A check that asks for every pattern to match.
is_imds_endpoint_all(url) ==
    \A i \in DOMAIN IMDS_PATTERNS : re_match(IMDS_PATTERNS[i], url)

\* any(re.match(pattern, url) for pattern in IMDS_PATTERNS)
is_imds_endpoint(url) ==
    \E i \in DOMAIN IMDS_PATTERNS : re_match(IMDS_PATTERNS[i], url)

\* get_aiohttp_session and get_health_session: the session of the module,
\* made when there is none.
get_aiohttp_session(current) ==
    IF current = <<>> THEN <<"aiohttp_session">> ELSE current

get_health_session(current) ==
    IF current = <<>> THEN <<"health_session">> ELSE current

HttpResponse(status_code, body, error) ==
    [kind |-> "HttpResponse", status_code |-> status_code, headers |-> <<>>,
     body |-> body, error |-> error]

\* Lines 152-161 of routes/networking.py.
ImdsDeniedResponse ==
    HttpResponse(403, "",
        <<"Access to Instance Metadata Service (IMDS) endpoints ",
          "is not allowed">>)

\* Lines 194-250 of routes/networking.py: the answer of the target, or
\* what `except aiohttp.ClientError` and `except Exception` make of a
\* failure.
RelayResponse(outcome) ==
    CASE outcome[1] = "status" -> HttpResponse(outcome[2], "body", <<>>)
      [] outcome[1] = "ClientError" ->
             HttpResponse(0, "", <<"Connection error: ", outcome[2]>>)
      [] OTHER -> HttpResponse(0, "", <<"Request failed: ", outcome[2]>>)

\* str() of a status code and int() of such a string: three decimal digits.
Str(n) == <<n \div 100, (n \div 10) % 10, n % 10>>
ParseInt(digits) == digits[1] * 100 + digits[2] * 10 + digits[3]

ServiceStatus(status, message, status_code) ==
    [status |-> status, message |-> message, status_code |-> status_code]

\* Lines 63-75 of routes/main.py.
InitialHealthStatus ==
    [status |-> "healthy",
     backend |-> ServiceStatus("healthy", <<"Backend service is running">>,
                               <<2, 0, 0>>),
     frontend |-> ServiceStatus("healthy", <<"Frontend service is running">>,
                                <<2, 0, 0>>)]

\* The except clauses with aiohttp.ClientError in front of
\* asyncio.TimeoutError.
FrontendFailureClientErrorFirst(classes, text) ==
    IF "ClientError" \in classes
    THEN ServiceStatus("unhealthy",
             <<"Frontend service connection error: ", text>>, <<4, 0, 8>>)
    ELSE IF "TimeoutError" \in classes
    THEN ServiceStatus("unhealthy",
             <<"Frontend service timeout after 2 seconds">>, <<5, 0, 3>>)
    ELSE ServiceStatus("unhealthy",
             <<"Unexpected error checking frontend: ", text>>, <<5, 0, 0>>)

\* Lines 104-140 of routes/main.py: the except clauses in their order.
\* An exception is the set of the classes it is an instance of, among
\* asyncio.TimeoutError and aiohttp.ClientError, and its text.
FrontendFailure(classes, text) ==
    IF "TimeoutError" \in classes
    THEN ServiceStatus("unhealthy",
             <<"Frontend service timeout after 2 seconds">>, <<5, 0, 3>>)
    ELSE IF "ClientError" \in classes
    THEN ServiceStatus("unhealthy",
             <<"Frontend service connection error: ", text>>, <<4, 0, 8>>)
    ELSE ServiceStatus("unhealthy",
             <<"Unexpected error checking frontend: ", text>>, <<5, 0, 0>>)

\* Lines 77-140 of routes/main.py: the frontend entry after the probe.
FrontendEntry(entry, outcome) ==
    IF outcome[1] = "status"
    THEN IF outcome[2] # 200
         THEN ServiceStatus("unhealthy",
                  <<"Frontend service returned status code: ", Str(outcome[2])>>,
                  Str(outcome[2]))
         ELSE entry
    ELSE FrontendFailure(outcome[2], outcome[3])

\* Lines 142-154 of routes/main.py.
OverallStatus(status) ==
    IF status.frontend.status = "unhealthy"
       \/ status.backend.status = "unhealthy"
    THEN "unhealthy" ELSE status.status

ResponseStatusCode(status) ==
    IF status.frontend.status = "unhealthy"
       \/ status.backend.status = "unhealthy"
    THEN IF status.frontend.status = "unhealthy"
         THEN ParseInt(status.frontend.status_code)
         ELSE ParseInt(status.backend.status_code)
    ELSE 200

\* What the callers of the relay send, as str(http_request.url) and the
\* validated method.
RelayHosts == {"169.254.169.254", "[fd00:ec2::254]",
               "metadata.google.internal", "example.com"}
RelayUrls ==
    [scheme : {"http", "https"}, host : RelayHosts, port : {"", "80"},
     path : {<<>>, <<"/">>, <<"/", "latest/meta-data">>}]
RelayRequests == [url : RelayUrls, method : {"GET", "HEAD", "OPTIONS"}]

\* What the target of a relayed request, or the frontend, does.
TargetStatuses == {200, 204, 403, 404, 503}
TargetOutcomes ==
    {<<"status", n>> : n \in TargetStatuses}
    \cup {<<"ClientError", "refused">>, <<"Exception", "boom">>}
FrontendOutcomes ==
    {<<"status", n>> : n \in TargetStatuses}
    \cup {<<"raise", c, "refused">> :
             c \in SUBSET {"TimeoutError", "ClientError"}}

FrontendUrl ==
    [scheme |-> "http", host |-> "localhost", port |-> "3000", path |-> <<>>]

(***************************************************************************)
(* The process.                                                            *)
(***************************************************************************)
client_vars == <<kubernetes_client, clients_created, tried>>
pods_vars == <<namespaces, statuses, field_selector, ns_index, all_pods,
               max_limit_reached, pods, list_calls, cluster_raised,
               fan_out_raised>>
delete_vars == <<pod_phase, read_phase, read_raised, delete_calls>>
session_vars == <<aiohttp_session, health_session>>
edge_vars == <<aiohttp_session, health_session, relay_session, outbound,
               health_status>>

Init ==
    /\ world \in Worlds
    /\ kubernetes_client = <<>>
    /\ clients_created = 0
    /\ tried = <<>>
    /\ last_slow_request_time = None
    /\ pc = "boot"
    /\ req = NoRequest
    /\ namespaces = <<>>
    /\ statuses = <<>>
    /\ field_selector = <<>>
    /\ ns_index = 0
    /\ all_pods = <<>>
    /\ max_limit_reached = FALSE
    /\ pods = <<>>
    /\ list_calls = <<>>
    /\ cluster_raised = <<>>
    /\ fan_out_raised = <<>>
    /\ pod_phase = None
    /\ read_phase = None
    /\ read_raised = <<>>
    /\ delete_calls = <<>>
    /\ aiohttp_session = <<>>
    /\ health_session = <<>>
    /\ relay_session = <<>>
    /\ outbound = <<>>
    /\ health_status = <<>>
    /\ response = NoResponse

\* The outcomes of the config loaders matter only to a call that finds no
\* handle yet.
LoaderChoices ==
    IF kubernetes_client = <<>> THEN LoaderOutcomes
    ELSE {[i \in 1..Len(ConfigLoaders) |-> TRUE]}

\* `v1 = get_kubernetes_client()` as the step's effect on the globals.
GetClient(loaders) ==
    LET got == get_kubernetes_client(kubernetes_client, clients_created, loaders)
    IN /\ kubernetes_client' = got.client
       /\ clients_created' = got.created
       /\ tried' = got.tried

\* main.py startup_event: the two HTTP sessions and the client are
\* pre-initialised before any request.
Startup ==
    /\ pc = "boot"
    /\ aiohttp_session' = get_aiohttp_session(aiohttp_session)
    /\ health_session' = get_health_session(health_session)
    /\ \E loaders \in LoaderChoices : GetClient(loaders)
    /\ pc' = "idle"
    /\ UNCHANGED <<relay_session, outbound, health_status, world, last_slow_request_time, req, pods_vars, delete_vars,
                   response>>

\* get_kubernetes_pods, lines 114-177: validation of the query, the parsed
\* filters, the client, the selector, the empty accumulator.
PodsStart ==
    /\ pc = "idle"
    /\ \E r \in PodsRequests :
        /\ r.page >= 1
        /\ r.page_size \in 1..MaxPageSize
        /\ req' = [kind |-> "pods"] @@ r
        /\ namespaces' = ParseFilter(r.namespace_filter)
        /\ statuses' = ParseFilter(r.status_filter)
    /\ \E loaders \in LoaderChoices : GetClient(loaders)
    /\ field_selector' = FieldSelector(statuses')
    /\ all_pods' = <<>>
    /\ max_limit_reached' = FALSE
    /\ pods' = <<>>
    /\ list_calls' = <<>>
    /\ cluster_raised' = <<>>
    /\ fan_out_raised' = <<>>
    /\ ns_index' = 1
    /\ pc' = IF namespaces' # <<>> THEN "fetch_namespaces" ELSE "fetch_cluster"
    /\ response' = NoResponse
    /\ UNCHANGED <<edge_vars, world, last_slow_request_time, delete_vars>>

\* `>` in the place of `>=`.
CapExceeded(total) == total > MaxPods

\* Line 193: `if len(all_pods) >= 1000`.
CapReached(total) == total >= MaxPods

\* A loop that ends with its first turn.
AfterFirstTurn(capped, last) == "process"

\* Lines 199 and 206, and the end of the for loop: where the handler goes
\* after a turn of the loop.
AfterTurn(capped, last) ==
    IF capped \/ last THEN "process" ELSE "fetch_namespaces"

\* A loop that asks a failed namespace again.
SameIndexAfterFailure(index, raised) == IF raised THEN index ELSE index + 1

\* Line 179: `for namespace in namespaces` moves on after every turn.
NextIndex(index, raised) == index + 1

ListCall(api, ns, limit, raised, returned) ==
    [api |-> api, namespace |-> ns, field_selector |-> field_selector,
     limit |-> limit, raised |-> raised, returned |-> returned]

\* What a namespace call can raise: an ApiException with a status, or
\* another exception.
NamespaceCallFailures ==
    {<<"ApiException", 401>>, <<"ApiException", 403>>,
     <<"Exception", "connection refused">>}

\* A loop whose `except` lets an ApiException through to the handlers
\* of lines 395-424.
FanOutErrorResponseOfApi(failure) ==
    IF failure[1] = "ApiException"
    THEN ErrorResponse(ApiErrorMessage(failure[2], ApiReason(failure[2])))
    ELSE NoResponse

\* Lines 201-206: `except Exception as ns_error`, a log line and
\* `continue`; no response is made of the failure.
FanOutErrorResponse(failure) == NoResponse

\* Lines 179-206: one turn of `for namespace in namespaces`.  The call
\* returns, or raises an ApiException or any other exception; both are
\* caught by `except Exception` and the loop continues.
PodsFetchNamespace ==
    /\ pc = "fetch_namespaces"
    /\ LET ns == namespaces[ns_index]
           items == NamespacedPods(world, ns, field_selector, req.page_size)
           last == ns_index = Len(namespaces)
       IN \E outcome \in {<<"returns">>} \cup NamespaceCallFailures :
            IF outcome[1] = "returns"
            THEN /\ all_pods' = all_pods \o items
                 /\ list_calls' = Append(list_calls,
                        ListCall("list_namespaced_pod", ns, req.page_size,
                                 FALSE, Len(items)))
                 /\ max_limit_reached' =
                        (max_limit_reached \/ CapReached(Len(all_pods')))
                 /\ pc' = AfterTurn(CapReached(Len(all_pods')), last)
                 /\ ns_index' = NextIndex(ns_index, FALSE)
                 /\ fan_out_raised' = Append(fan_out_raised, <<>>)
                 /\ response' = response
            ELSE /\ all_pods' = all_pods
                 /\ list_calls' = Append(list_calls,
                        ListCall("list_namespaced_pod", ns, req.page_size,
                                 TRUE, 0))
                 /\ max_limit_reached' = max_limit_reached
                 /\ ns_index' = NextIndex(ns_index, TRUE)
                 /\ fan_out_raised' = Append(fan_out_raised, outcome)
                 /\ response' = FanOutErrorResponse(outcome)
                 /\ pc' = IF response' = NoResponse
                          THEN AfterTurn(FALSE, last) ELSE "done"
    /\ tried' = <<>>
    /\ UNCHANGED <<edge_vars, world, kubernetes_client, clients_created,
                   last_slow_request_time, req, namespaces, statuses,
                   field_selector, pods, cluster_raised, delete_vars>>

\* Lines 207-225 when the call returns.
PodsFetchCluster ==
    /\ pc = "fetch_cluster"
    /\ LET limit == ClusterLimit(req.page_size)
           items == ClusterPods(world, field_selector, limit)
       IN /\ all_pods' = items
          /\ list_calls' = Append(list_calls,
                 ListCall("list_pod_for_all_namespaces", None, limit,
                          FALSE, Len(items)))
          /\ max_limit_reached' = CapReached(Len(items))
    /\ pc' = "process"
    /\ tried' = <<>>
    /\ UNCHANGED <<edge_vars, world, kubernetes_client, clients_created,
                   last_slow_request_time, req, namespaces, statuses,
                   field_selector, ns_index, pods, cluster_raised,
                   fan_out_raised, delete_vars, response>>

\* Lines 207-217 when the call raises: nothing catches it before the
\* handlers of lines 395-450.
PodsFetchClusterFails ==
    /\ pc = "fetch_cluster"
    /\ \/ \E status \in ApiStatuses :
            /\ response' = ErrorResponse(ApiErrorMessage(status,
                                                         ApiReason(status)))
            /\ cluster_raised' = <<"ApiException", status>>
       \/ \E text \in ExceptionTexts :
            /\ response' = ErrorResponse(ExceptionMessage(text))
            /\ cluster_raised' = <<"Exception", text>>
    /\ list_calls' = Append(list_calls,
           ListCall("list_pod_for_all_namespaces", None,
                    ClusterLimit(req.page_size), TRUE, 0))
    /\ pc' = "done"
    /\ tried' = <<>>
    /\ UNCHANGED <<edge_vars, world, kubernetes_client, clients_created,
                   last_slow_request_time, req, namespaces, statuses,
                   field_selector, ns_index, all_pods, max_limit_reached, pods,
                   fan_out_raised, delete_vars>>

\* A mark that is cleared by every request that was not slow.
SlowMarkOrNone(slow, last) == IF slow THEN "now" ELSE None

\* Lines 229-232: `_last_slow_request_time = datetime.now()` when the calls
\* took more than _slow_request_threshold seconds.
SlowMark(slow, last) == IF slow THEN "now" ELSE last

\* Lines 227-393: the slow-request mark (the calls took more than
\* _slow_request_threshold seconds or not), processing, sorting, pagination.
PodsProcess ==
    /\ pc = "process"
    /\ LET sorted == SortPods(ProcessPods(all_pods, statuses),
                              req.sort_by, req.sort_order)
       IN /\ pods' = sorted
          /\ response' = PodsResponse(req, sorted, Len(all_pods),
                                      max_limit_reached)
          /\ max_limit_reached' = response'.max_limit_reached
          /\ \E slow \in BOOLEAN :
                last_slow_request_time' =
                    SlowMark(slow, last_slow_request_time)
    /\ pc' = "done"
    /\ tried' = <<>>
    /\ UNCHANGED <<edge_vars, world, kubernetes_client, clients_created, req, namespaces,
                   statuses, field_selector, ns_index, all_pods, list_calls,
                   cluster_raised, fan_out_raised, delete_vars>>

\* The response is sent; the handler's locals are gone.
Return ==
    /\ pc = "done"
    /\ pc' = "idle"
    /\ req' = NoRequest
    /\ namespaces' = <<>>
    /\ statuses' = <<>>
    /\ field_selector' = <<>>
    /\ ns_index' = 0
    /\ all_pods' = <<>>
    /\ max_limit_reached' = FALSE
    /\ pods' = <<>>
    /\ list_calls' = <<>>
    /\ cluster_raised' = <<>>
    /\ fan_out_raised' = <<>>
    /\ pod_phase' = None
    /\ read_phase' = None
    /\ read_raised' = <<>>
    /\ delete_calls' = <<>>
    /\ relay_session' = <<>>
    /\ outbound' = <<>>
    /\ health_status' = <<>>
    /\ response' = NoResponse
    /\ tried' = <<>>
    /\ UNCHANGED <<session_vars, world, kubernetes_client, clients_created,
                   last_slow_request_time>>

\* get_kubernetes_namespaces, lines 615-631: the client; the list call is
\* next.
NamespacesStart ==
    /\ pc = "idle"
    /\ req' = [kind |-> "namespaces"]
    /\ \E loaders \in LoaderChoices : GetClient(loaders)
    /\ pc' = "list_namespaces"
    /\ response' = NoResponse
    /\ UNCHANGED <<edge_vars, world, last_slow_request_time, pods_vars, delete_vars>>

NamespacesResponse(names, error) ==
    [kind |-> "namespaces", namespaces |-> names, error |-> error]

\* Lines 633-666: list_namespace returns; the names, sorted.
NamespacesList ==
    /\ pc = "list_namespaces"
    /\ response' = NamespacesResponse(Namespaces, <<>>)
    /\ pc' = "done"
    /\ tried' = <<>>
    /\ UNCHANGED <<edge_vars, world, kubernetes_client, clients_created,
                   last_slow_request_time, req, pods_vars, delete_vars>>

\* Lines 668-711: list_namespace raises.
NamespacesListFails ==
    /\ pc = "list_namespaces"
    /\ \/ \E status \in ApiStatuses :
            response' = NamespacesResponse(<<>>,
                            ApiErrorMessage(status, ApiReason(status)))
       \/ response' = NamespacesResponse(<<>>,
               <<"An internal error occurred while retrieving Kubernetes namespaces.">>)
    /\ pc' = "done"
    /\ tried' = <<>>
    /\ UNCHANGED <<edge_vars, world, kubernetes_client, clients_created,
                   last_slow_request_time, req, pods_vars, delete_vars>>

\* delete_kubernetes_pod, lines 457-487: the client; the phase read is next.
\* The cluster holds the named pod in some phase, or not at all.
DeleteStart ==
    /\ pc = "idle"
    /\ \E r \in DeleteRequests : req' = [kind |-> "delete"] @@ r
    /\ \E loaders \in LoaderChoices : GetClient(loaders)
    /\ \E state \in PodStates : pod_phase' = state
    /\ read_phase' = None
    /\ read_raised' = <<>>
    /\ delete_calls' = <<>>
    /\ pc' = "delete_read"
    /\ response' = NoResponse
    /\ UNCHANGED <<edge_vars, world, last_slow_request_time, pods_vars>>

\* The cluster is not ours: while the request waits on the API, the kubelet
\* or another client moves the pod to another phase, removes or creates it.
ClusterMoves ==
    /\ pc \in {"delete_read", "delete_call"}
    /\ \E state \in PodStates \ {pod_phase} : pod_phase' = state
    /\ tried' = <<>>
    /\ UNCHANGED <<edge_vars, world, kubernetes_client, clients_created,
                   last_slow_request_time, pc, req, pods_vars, read_phase,
                   read_raised, delete_calls, response>>

\* Lines 488-521: read_namespaced_pod returns the pod.
DeleteReadPhase ==
    /\ pc = "delete_read"
    /\ pod_phase # "Absent"
    /\ read_phase' = pod_phase
    /\ IF pod_phase \in ProtectedPhases
       THEN /\ response' = DeniedResponse(req, pod_phase)
            /\ pc' = "done"
       ELSE /\ response' = response
            /\ pc' = "delete_call"
    /\ tried' = <<>>
    /\ UNCHANGED <<edge_vars, world, kubernetes_client, clients_created,
                   last_slow_request_time, req, pods_vars, pod_phase,
                   read_raised, delete_calls>>

\* Lines 488-492 raise: 404 for a pod that is not there, any other API
\* status, or an exception that is no ApiException (a timeout, a refused
\* connection), which only the outer handler of line 597 catches.
DeleteReadFails ==
    /\ pc = "delete_read"
    /\ \/ /\ pod_phase = "Absent"
          /\ response' = PhaseCheckFailedResponse(req, 404, ApiReason(404))
          /\ read_raised' = <<"ApiException", 404>>
       \/ \E status \in ApiStatuses \ {404} :
            /\ response' = PhaseCheckFailedResponse(req, status,
                                                    ApiReason(status))
            /\ read_raised' = <<"ApiException", status>>
       \/ \E text \in ExceptionTexts :
            /\ response' = UnexpectedFailureResponse(text)
            /\ read_raised' = <<"Exception", text>>
    /\ pc' = "done"
    /\ tried' = <<>>
    /\ UNCHANGED <<edge_vars, world, kubernetes_client, clients_created,
                   last_slow_request_time, req, pods_vars, pod_phase,
                   read_phase, delete_calls>>

DeleteCall(outcome) ==
    [name |-> req.name, namespace |-> req.namespace,
     phase_at_call |-> pod_phase, outcome |-> outcome]

\* Lines 556-577: delete_namespaced_pod returns; the pod is gone.
DeletePod ==
    /\ pc = "delete_call"
    /\ pod_phase # "Absent"
    /\ delete_calls' = Append(delete_calls, DeleteCall("returned"))
    /\ pod_phase' = "Absent"
    /\ response' = DeletedResponse(req)
    /\ pc' = "done"
    /\ tried' = <<>>
    /\ UNCHANGED <<edge_vars, world, kubernetes_client, clients_created,
                   last_slow_request_time, req, pods_vars, read_phase,
                   read_raised>>

\* Lines 556-562 raise: an ApiException (404 when the pod is gone by now),
\* or any other exception.
DeletePodFails ==
    /\ pc = "delete_call"
    /\ \/ /\ pod_phase = "Absent"
          /\ response' = DeleteFailedResponse(ApiReason(404))
          /\ delete_calls' = Append(delete_calls, DeleteCall("ApiException"))
       \/ /\ \E status \in ApiStatuses \ {404} :
                response' = DeleteFailedResponse(ApiReason(status))
          /\ delete_calls' = Append(delete_calls, DeleteCall("ApiException"))
       \/ /\ \E text \in ExceptionTexts :
                response' = UnexpectedFailureResponse(text)
          /\ delete_calls' = Append(delete_calls, DeleteCall("Exception"))
    /\ pc' = "done"
    /\ tried' = <<>>
    /\ UNCHANGED <<edge_vars, world, kubernetes_client, clients_created,
                   last_slow_request_time, req, pods_vars, pod_phase,
                   read_phase, read_raised>>

\* An outbound HTTP request: the session it went through, what was
\* asked and what came of it.
OutboundCall(session, method, url, outcome) ==
    [session |-> session, method |-> method, url |-> url, outcome |-> outcome]

\* make_http_request, lines 131-172 of routes/networking.py: the URL is
\* a metadata endpoint and the 403 is returned.
RelayDenied ==
    /\ pc = "idle"
    /\ \E r \in RelayRequests :
        /\ is_imds_endpoint(UrlString(r.url))
        /\ req' = [kind |-> "relay"] @@ r
    /\ response' = ImdsDeniedResponse
    /\ pc' = "done"
    /\ tried' = <<>>
    /\ UNCHANGED <<edge_vars, world, kubernetes_client, clients_created,
                   last_slow_request_time, pods_vars, delete_vars>>

\* make_http_request, lines 131-175: the URL is no metadata endpoint;
\* the shared session is obtained.
RelayGetSession ==
    /\ pc = "idle"
    /\ \E r \in RelayRequests :
        /\ ~is_imds_endpoint(UrlString(r.url))
        /\ req' = [kind |-> "relay"] @@ r
    /\ aiohttp_session' = get_aiohttp_session(aiohttp_session)
    /\ relay_session' = aiohttp_session'
    /\ pc' = "relay_request"
    /\ tried' = <<>>
    /\ UNCHANGED <<health_session, outbound, health_status, world,
                   kubernetes_client, clients_created, last_slow_request_time,
                   pods_vars, delete_vars, response>>

\* make_http_request, lines 177-254: session.request and the response
\* made of its answer or of its failure.
RelayRequest ==
    /\ pc = "relay_request"
    /\ \E outcome \in TargetOutcomes :
        /\ outbound' = Append(outbound,
               OutboundCall(relay_session, req.method, UrlString(req.url),
                            outcome))
        /\ response' = RelayResponse(outcome)
    /\ pc' = "done"
    /\ tried' = <<>>
    /\ UNCHANGED <<session_vars, relay_session, health_status, world,
                   kubernetes_client, clients_created, last_slow_request_time,
                   req, pods_vars, delete_vars>>

\* health_check, lines 49-75 of routes/main.py: both entries healthy.
HealthStart ==
    /\ pc = "idle"
    /\ req' = [kind |-> "health"]
    /\ health_status' = InitialHealthStatus
    /\ pc' = "health_probe"
    /\ tried' = <<>>
    /\ UNCHANGED <<session_vars, relay_session, outbound, world,
                   kubernetes_client, clients_created, last_slow_request_time,
                   pods_vars, delete_vars, response>>

\* health_check, lines 77-140: the GET to the frontend.
HealthProbe ==
    /\ pc = "health_probe"
    /\ health_session' = get_health_session(health_session)
    /\ \E outcome \in FrontendOutcomes :
        /\ outbound' = Append(outbound,
               OutboundCall(health_session', "GET", UrlString(FrontendUrl),
                            outcome))
        /\ health_status' =
               [health_status EXCEPT
                   !.frontend = FrontendEntry(health_status.frontend, outcome)]
    /\ pc' = "health_answer"
    /\ tried' = <<>>
    /\ UNCHANGED <<aiohttp_session, relay_session, world, kubernetes_client,
                   clients_created, last_slow_request_time, req, pods_vars,
                   delete_vars, response>>

\* health_check, lines 142-172: the overall status and the status code
\* of the response.
HealthAnswer ==
    /\ pc = "health_answer"
    /\ health_status' =
           [health_status EXCEPT !.status = OverallStatus(health_status)]
    /\ response' = [kind |-> "HealthCheck",
                    status_code |-> ResponseStatusCode(health_status),
                    body |-> health_status']
    /\ pc' = "done"
    /\ tried' = <<>>
    /\ UNCHANGED <<session_vars, relay_session, outbound, world,
                   kubernetes_client, clients_created, last_slow_request_time,
                   req, pods_vars, delete_vars>>

Next ==
    \/ Startup
    \/ PodsStart
    \/ PodsFetchNamespace
    \/ PodsFetchCluster
    \/ PodsFetchClusterFails
    \/ PodsProcess
    \/ NamespacesStart
    \/ NamespacesList
    \/ NamespacesListFails
    \/ DeleteStart
    \/ ClusterMoves
    \/ DeleteReadPhase
    \/ DeleteReadFails
    \/ DeletePod
    \/ DeletePodFails
    \/ Return

Spec == Init /\ [][Next]_vars

\* The relay and the health check of the same process.
EdgeNext ==
    \/ Startup
    \/ RelayDenied
    \/ RelayGetSession
    \/ RelayRequest
    \/ HealthStart
    \/ HealthProbe
    \/ HealthAnswer
    \/ Return

EdgeSpec == Init /\ [][EdgeNext]_vars

(***************************************************************************)
(* Properties of the pods listing and of the pod deletion.                 *)
(***************************************************************************)
\* The handler of a pods request has built a response without error.
PodsSucceeded ==
    /\ pc = "done"
    /\ req.kind = "pods"
    /\ response.error = <<>>

DeleteAnswered == pc = "done" /\ req.kind = "delete"

\* min(page_size * 10, 1000), written out.
FetchThreshold == IF req.page_size * 10 < 1000 THEN req.page_size * 10 ELSE 1000

StartIdx == (req.page - 1) * req.page_size
EndIdx == StartIdx + req.page_size

\* The raw pods the status filter of the request keeps.
KeptCount ==
    Cardinality({i \in DOMAIN all_pods :
                    statuses = <<>> \/ all_pods[i].phase \in Range(statuses)})

\* C1: whenever a successful pods request accumulated at least
\* min(page_size * 10, 1000) raw pods, the response carries
\* max_limit_reached = true and total_items exactly 1000, whatever the
\* number of pods left by the status filter.
C1_TruncationSentinel ==
    (PodsSucceeded /\ Len(all_pods) >= FetchThreshold) =>
        /\ response.max_limit_reached = TRUE
        /\ response.pagination.max_limit_reached = TRUE
        /\ response.pagination.total_items = 1000

\* A fan-out of 1999 raw pods of which the status filter keeps fewer.
C1_Witness ==
    /\ PodsSucceeded
    /\ Len(all_pods) >= FetchThreshold
    /\ Len(list_calls) = 2
    /\ Len(pods) < Len(all_pods)
    /\ Len(pods) # 1000
    /\ response.pagination.total_items = 1000
    /\ response.max_limit_reached

\* C2: a successful pods request for a page > 1 beyond the reported
\* total_pages answers with an empty list of pods and has_next = false,
\* also when the fetch was truncated.
C2_BeyondLastPageEmpty ==
    (PodsSucceeded /\ req.page > 1
                   /\ req.page > response.pagination.total_pages) =>
        /\ response.pods = <<>>
        /\ response.pagination.has_next = FALSE

\* C3: when the phase read of a delete request returns Running or
\* Succeeded, the response has success = false and the message
\* "Cannot delete pod", and the request never issues the delete call.
C3_ProtectedPhaseDenied ==
    (req.kind = "delete" /\ read_phase \in {"Running", "Succeeded"}) =>
        /\ pc = "done"
        /\ response.success = FALSE
        /\ response.message = <<"Cannot delete pod">>
        /\ delete_calls = <<>>

C3_Witness ==
    /\ DeleteAnswered
    /\ read_phase = "Succeeded"
    /\ response.message = <<"Cannot delete pod">>
    /\ delete_calls = <<>>

\* C4: a delete request issues the delete call at most once, and only
\* after its own phase read returned a phase other than Running and
\* Succeeded; when that call succeeds the response has success = true.
C4_DeleteOnlyAfterAllowedRead ==
    req.kind = "delete" =>
        /\ Len(delete_calls) <= 1
        /\ delete_calls # <<>> =>
              /\ read_raised = <<>>
              /\ read_phase \in {"Failed", "Pending", "Unknown"}
        /\ (delete_calls # <<>> /\ delete_calls[1].outcome = "returned") =>
              /\ pc = "done"
              /\ response.success = TRUE

C4_Witness ==
    /\ DeleteAnswered
    /\ read_phase = "Pending"
    /\ Len(delete_calls) = 1
    /\ delete_calls[1].outcome = "returned"
    /\ response.success = TRUE

\* C5: when the phase read of a delete request fails with API status
\* 404, the handler returns a response with success = false and the
\* message "Pod not found", and never issues the delete call.
C5_PodNotFound ==
    (req.kind = "delete" /\ read_raised = <<"ApiException", 404>>) =>
        /\ pc = "done"
        /\ response.kind = "DeletePodResponse"
        /\ response.success = FALSE
        /\ response.message = <<"Pod not found">>
        /\ delete_calls = <<>>

C5_Witness ==
    /\ DeleteAnswered
    /\ read_raised = <<"ApiException", 404>>
    /\ pod_phase = "Absent"
    /\ response.message = <<"Pod not found">>

\* What a failed delete call is answered with.
DeleteFailureResponses ==
    {DeleteFailedResponse(ApiReason(status)) : status \in ApiStatuses}
        \cup {UnexpectedFailureResponse(text) : text \in ExceptionTexts}

\* Two delete responses differ in message or in error text.
Differ(x, y) ==
    \/ x.message # y.message
    \/ x.error[1] # y.error[1]
    \/ x.error # y.error

\* C6: a failed delete call is answered with success = false and an
\* error text that begins "Failed to delete pod: "; whatever failed in
\* the phase read, an API error or any other exception, its response
\* differs in message or error text from that of every failed delete call.
C6_FailureStagesDistinct ==
    DeleteAnswered =>
        /\ (delete_calls # <<>> /\ delete_calls[1].outcome # "returned") =>
              /\ response.success = FALSE
              /\ response.error # <<>>
              /\ response.error[1] = "Failed to delete pod: "
        /\ read_raised # <<>> =>
              \A failed \in DeleteFailureResponses : Differ(response, failed)

\* The raw pods accumulated by the first i calls of the request.
RECURSIVE RunningTotal(_)
RunningTotal(i) ==
    IF i = 0 THEN 0 ELSE RunningTotal(i - 1) + list_calls[i].returned

\* C7: with a non-empty namespace list, whichever namespace calls
\* fail, the request succeeds without error, the raw pods are exactly
\* the pods returned by the calls that did not fail, in the order of the
\* calls, and a failed call does not keep the next namespace from being
\* queried.
C7_PartialFanOut ==
    (pc = "done" /\ req.kind = "pods" /\ namespaces # <<>>) =>
        /\ response.kind = "KubernetesResponse"
        /\ response.error = <<>>
        /\ Len(all_pods) = RunningTotal(Len(list_calls))
        /\ \A i \in DOMAIN list_calls :
              /\ list_calls[i].namespace = namespaces[i]
              /\ list_calls[i].raised => list_calls[i].returned = 0
              /\ ~list_calls[i].raised =>
                    SubSeq(all_pods, RunningTotal(i - 1) + 1, RunningTotal(i))
                        = NamespacedPods(world, namespaces[i], field_selector,
                                         req.page_size)
              /\ (list_calls[i].raised /\ i < Len(namespaces)) =>
                    Len(list_calls) > i

\* The first namespace fails, the second is queried and answers.
C7_Witness ==
    /\ pc = "done"
    /\ req.kind = "pods"
    /\ Len(list_calls) = 2
    /\ list_calls[1].raised
    /\ ~list_calls[2].raised
    /\ all_pods # <<>>
    /\ \A i \in DOMAIN all_pods : all_pods[i].namespace = namespaces[2]
    /\ response.error = <<>>

\* C8: in a fan-out no namespace is queried once the running total of
\* raw pods has reached 1000, and max_limit_reached is set from that
\* moment; without namespace list, max_limit_reached is set when the one
\* call returns at least 1000 pods.
C8_FanOutCap ==
    req.kind = "pods" =>
        /\ \A i \in DOMAIN list_calls :
              i < Len(list_calls) => RunningTotal(i) < 1000
        /\ (namespaces # <<>> /\ Len(all_pods) >= 1000) =>
              /\ max_limit_reached
              /\ pc \in {"process", "done"}
        /\ (namespaces = <<>> /\ list_calls # <<>>
                /\ ~list_calls[1].raised /\ list_calls[1].returned >= 1000) =>
              max_limit_reached

\* The first of two namespaces fills the cap; the second is never asked.
C8_Witness ==
    /\ req.kind = "pods"
    /\ pc = "process"
    /\ Len(namespaces) = 2
    /\ Len(list_calls) = 1
    /\ list_calls[1].returned = 1000
    /\ max_limit_reached

\* C9: when fewer than min(page_size * 10, 1000) raw pods were fetched
\* and the fetch did not flag the cap, total_items is the number of pods
\* the filter kept, the pods are the elements [start, end) of the sorted
\* list, has_next is page * page_size < total_items and has_previous is
\* page > 1.
C9_ExactTotals ==
    (PodsSucceeded /\ Len(all_pods) < FetchThreshold
                   /\ ~max_limit_reached) =>
        /\ response.pagination.total_items = KeptCount
        /\ Len(pods) = KeptCount
        /\ \A i \in 1..(Len(pods) - 1) :
              IF req.sort_order = "desc"
              THEN SortKey(req.sort_by, pods[i]) >= SortKey(req.sort_by, pods[i + 1])
              ELSE SortKey(req.sort_by, pods[i]) <= SortKey(req.sort_by, pods[i + 1])
        /\ Len(response.pods) =
              Max(0, Min(EndIdx, Len(pods)) - StartIdx)
        /\ \A j \in DOMAIN response.pods :
              response.pods[j] = pods[StartIdx + j]
        /\ response.pagination.has_next =
              (req.page * req.page_size < response.pagination.total_items)
        /\ response.pagination.has_previous = (req.page > 1)

\* Three pods, page 1 of size 2, by name ascending: the first two names,
\* a next page, 3 items on 2 pages.
C9_Witness ==
    /\ PodsSucceeded
    /\ world = "Tiny"
    /\ namespaces = <<>>
    /\ statuses = <<>>
    /\ req.page = 1
    /\ req.page_size = 2
    /\ req.sort_by = "name"
    /\ req.sort_order = "asc"
    /\ Len(response.pods) = 2
    /\ response.pods[1].name < response.pods[2].name
    /\ \A i \in DOMAIN pods : response.pods[2].name <= pods[i].name
                                \/ pods[i] = response.pods[1]
    /\ response.pagination.has_next
    /\ ~response.pagination.has_previous
    /\ response.pagination.total_items = 3
    /\ response.pagination.total_pages = 2

\* C10 as stated: has_next compares the end index with the number of
\* filtered records before slicing, also when total_items is replaced
\* by 1000.
C10_HasNextOfFilteredCount ==
    PodsSucceeded =>
        /\ response.pagination.has_next = (EndIdx < Len(pods))
        /\ response.pagination.has_previous = (req.page > 1)

\* C10: for every successful pods request has_next is
\* (page - 1) * page_size + page_size < total_items, the total_items the
\* response reports, which is the number of filtered records before
\* slicing unless the truncation policy replaced it by 1000; has_previous
\* is page > 1.
C10_HasNextOfReportedTotal ==
    PodsSucceeded =>
        /\ response.pagination.has_next =
              (EndIdx < response.pagination.total_items)
        /\ ~response.max_limit_reached =>
              response.pagination.total_items = Len(pods)
        /\ response.pagination.has_previous = (req.page > 1)

\* A truncated request whose has_next is not that of the filtered count.
C10_Witness ==
    /\ PodsSucceeded
    /\ response.max_limit_reached
    /\ response.pagination.total_items = 1000
    /\ response.pagination.has_next # (EndIdx < Len(pods))
    /\ response.pagination.has_next = (EndIdx < 1000)

\* C11: in every successful pods response total_pages is the ceiling of
\* total_items / page_size when the reported total_items is positive,
\* and 1 when it is 0; total_items is the reported one, sentinel included.
C11_TotalPagesCeiling ==
    PodsSucceeded =>
        LET total == response.pagination.total_items
            pages == response.pagination.total_pages
        IN IF total = 0 THEN pages = 1
           ELSE /\ pages * req.page_size >= total
                /\ (pages - 1) * req.page_size < total

\* The sentinel on pages of two: 500 pages, whatever the filter kept.
C11_Witness ==
    /\ PodsSucceeded
    /\ response.max_limit_reached
    /\ response.pagination.total_items = 1000
    /\ req.page_size = 2
    /\ response.pagination.total_pages = 500
    /\ Len(pods) < 20

\* The raw pods whose phase is one of the requested statuses, in fetch order.
InStatusSet(pod) == \E i \in DOMAIN statuses : statuses[i] = pod.phase

\* C12: with a non-empty status list, every processed record has a
\* phase of the list, every fetched pod with a phase of the list is
\* kept, and the order of the records is that of sorting the kept pods
\* taken in fetch order.
C12_StatusFilter ==
    (PodsSucceeded /\ statuses # <<>>) =>
        LET kept == SelectSeq(all_pods, InStatusSet)
        IN /\ \A i \in DOMAIN pods : pods[i].phase \in Range(statuses)
           /\ Len(pods) = Len(kept)
           /\ pods = SortPods([i \in DOMAIN kept |-> PodInfo(kept[i])],
                              req.sort_by, req.sort_order)

\* Two statuses over a mixed fetch: some pods dropped, both phases kept.
C12_Witness ==
    /\ PodsSucceeded
    /\ Len(statuses) = 2
    /\ Len(pods) < Len(all_pods)
    /\ \E i \in DOMAIN pods : pods[i].phase = "Running"
    /\ \E i \in DOMAIN pods : pods[i].phase = "Failed"

\* C13: every list call of a pods request carries the selector
\* status.phase=<s> exactly when the parsed status list is the single
\* entry s; with no status or several, no call carries a selector.
C13_SelectorRule ==
    req.kind = "pods" =>
        \A i \in DOMAIN list_calls :
            IF Len(statuses) = 1
            THEN list_calls[i].field_selector
                     = << <<"status.phase", statuses[1]>> >>
            ELSE list_calls[i].field_selector = <<>>

\* A fan-out of two calls that both carry the selector of the one status.
C13_Witness ==
    /\ req.kind = "pods"
    /\ statuses = <<"Running">>
    /\ Len(list_calls) = 2
    /\ \A i \in DOMAIN list_calls :
          list_calls[i].field_selector = << <<"status.phase", "Running">> >>

RecognizedSortFields ==
    {"name", "namespace", "phase", "created_timestamp", "restart_count"}

\* pods is in the order of key: ascending, or descending when reverse.
OrderedBy(key(_), reverse) ==
    \A i \in 1..(Len(pods) - 1) :
        IF reverse THEN key(pods[i]) >= key(pods[i + 1])
                   ELSE key(pods[i]) <= key(pods[i + 1])

NameKey(p) == p.name

\* C14 as stated: an unrecognized sort_by sorts by name ascending, for
\* sort_order asc and for sort_order desc.
C14_UnrecognizedSortsAscending ==
    (PodsSucceeded /\ req.sort_by \notin RecognizedSortFields) =>
        OrderedBy(NameKey, FALSE)

\* C14: an unrecognized sort_by makes the pipeline sort by name, in the
\* requested order: ascending for asc, descending for desc.
C14_UnrecognizedSortsByName ==
    (PodsSucceeded /\ req.sort_by \notin RecognizedSortFields) =>
        OrderedBy(NameKey, req.sort_order = "desc")

\* An unrecognized key with desc: the names go down.
C14_Witness ==
    /\ PodsSucceeded
    /\ req.sort_by \notin RecognizedSortFields
    /\ req.sort_order = "desc"
    /\ Len(pods) >= 2
    /\ pods[1].name > pods[Len(pods)].name

\* The records the sort step receives: the kept pods, normalised, in
\* fetch order.
Unsorted ==
    LET kept == SelectSeq(all_pods,
                    LAMBDA pod : statuses = <<>> \/ InStatusSet(pod))
    IN [i \in DOMAIN kept |-> PodInfo(kept[i])]

RequestKey(p) == SortKey(req.sort_by, p)

WithKey(s, k) == SelectSeq(s, LAMBDA p : RequestKey(p) = k)

\* C15: for every recognized key and both orders, sorting the sorted
\* list again changes nothing, the result is ordered by the key in the
\* requested direction, it is a permutation of the input, and records
\* with equal keys keep the relative order they had in the input.
C15_SortStableIdempotent ==
    (PodsSucceeded /\ req.sort_by \in RecognizedSortFields) =>
        /\ SortPods(pods, req.sort_by, req.sort_order) = pods
        /\ OrderedBy(RequestKey, req.sort_order = "desc")
        /\ Len(pods) = Len(Unsorted)
        /\ Len(pods) <= MaxStableLen =>
              \A k \in {RequestKey(pods[i]) : i \in DOMAIN pods}
                       \cup {RequestKey(Unsorted[i]) : i \in DOMAIN Unsorted} :
                  WithKey(pods, k) = WithKey(Unsorted, k)

\* A descending sort that moved records and left two different records
\* of equal key next to each other.
C15_Witness ==
    /\ PodsSucceeded
    /\ req.sort_by = "phase"
    /\ req.sort_order = "desc"
    /\ Len(pods) <= MaxStableLen
    /\ pods # Unsorted
    /\ \E i \in 1..(Len(pods) - 1) :
          /\ pods[i].phase = pods[i + 1].phase
          /\ pods[i] # pods[i + 1]
    /\ \E i \in 1..(Len(pods) - 1) : pods[i].phase # pods[i + 1].phase

\* The raw pod of the cluster a record was built from.
RawOf(rec) ==
    PodAt(world, rec.namespace, rec.name - FirstName(world, rec.namespace))

HasReadyTrue(raw) ==
    \E i \in DOMAIN raw.conditions :
        raw.conditions[i] = [type |-> "Ready", status |-> "True"]

\* C16 as stated: readyCount is 0 or totalContainers, it is
\* totalContainers iff the pod has the condition Ready = True, ready is
\* "<readyCount>/<totalContainers>", and healthy iff phase is Running and
\* readyCount = totalContainers, the pod without containers included.
C16_ReadyCountIffReady ==
    PodsSucceeded =>
        \A i \in DOMAIN pods :
            LET raw == RawOf(pods[i])
                ready_count == pods[i].ready[1]
            IN /\ ready_count \in {0, raw.containers}
               /\ (ready_count = raw.containers) <=> HasReadyTrue(raw)
               /\ pods[i].ready = <<ready_count, "/", raw.containers>>
               /\ pods[i].healthy <=>
                     (raw.phase = "Running" /\ ready_count = raw.containers)

\* C16: readyCount is totalContainers when the pod has the condition
\* Ready = True and 0 otherwise, so it equals totalContainers iff the pod
\* is Ready or has no containers; ready is
\* "<readyCount>/<totalContainers>"; healthy iff phase is Running and
\* readyCount = totalContainers.
C16_HealthRule ==
    PodsSucceeded =>
        \A i \in DOMAIN pods :
            LET raw == RawOf(pods[i])
                ready_count == pods[i].ready[1]
            IN /\ ready_count = IF HasReadyTrue(raw) THEN raw.containers ELSE 0
               /\ (ready_count = raw.containers) <=>
                     (HasReadyTrue(raw) \/ raw.containers = 0)
               /\ pods[i].ready = <<ready_count, "/", raw.containers>>
               /\ pods[i].healthy <=>
                     (raw.phase = "Running" /\ ready_count = raw.containers)

\* A Running pod without containers and without Ready = True: 0/0, healthy.
C16_Witness ==
    /\ PodsSucceeded
    /\ \E i \in DOMAIN pods :
          /\ RawOf(pods[i]).containers = 0
          /\ ~HasReadyTrue(RawOf(pods[i]))
          /\ pods[i].phase = "Running"
          /\ pods[i].ready = <<0, "/", 0>>
          /\ pods[i].healthy

\* C17: the first call of get_kubernetes_client tries in-cluster
\* config, kubeconfig file, environment config in that order, stops at
\* the first that loads, and whatever the three answer, all failing
\* included, a handle exists when the call returns.
C17_DiscoveryOrder ==
    /\ pc # "boot" => kubernetes_client # <<>>
    /\ tried # <<>> =>
          /\ Len(tried) <= 3
          /\ \A i \in DOMAIN tried :
                tried[i].loader = <<"load_incluster_config",
                                    "load_kube_config", "load_config">>[i]
          /\ \A i \in 1..(Len(tried) - 1) : ~tried[i].loaded
          /\ ~tried[Len(tried)].loaded => Len(tried) = 3
          /\ kubernetes_client # <<>>
          /\ clients_created = 1

\* The three loaders failed and the default handle is there.
C17_Witness ==
    /\ Len(tried) = 3
    /\ \A i \in DOMAIN tried : ~tried[i].loaded
    /\ kubernetes_client # <<>>
    /\ pc = "idle"

\* C18: whatever the sequence of startup and pods, delete and
\* namespaces requests, at most one handle is ever constructed, and once
\* the handle is set no step replaces or resets it or runs the
\* credential discovery again.
C18_SingleSharedClient ==
    /\ [](clients_created <= 1)
    /\ [][kubernetes_client # <<>> =>
             /\ kubernetes_client' = kubernetes_client
             /\ clients_created' = clients_created
             /\ tried' = <<>>]_vars

\* A later request of each kind has taken the handle of the startup.
C18_Witness ==
    /\ pc \in {"delete_read", "list_namespaces", "fetch_cluster"}
    /\ kubernetes_client = <<1>>
    /\ clients_created = 1
    /\ tried = <<>>
    /\ last_slow_request_time # None

ClusterRaised(kind) ==
    /\ req.kind = "pods"
    /\ cluster_raised # <<>>
    /\ cluster_raised[1] = kind

\* C19: when the cluster list call raises an API error with status s,
\* the pods handler returns a response with no pods and the error
\* message chosen by s: not found for 404, unauthorized for 401,
\* forbidden for 403, internal error for 500, and for any other s
\* "Kubernetes API error (<s>): <reason>"; every pods request ends in a
\* response, never in an exception.
C19_ApiErrorEmbedded ==
    /\ (pc = "done" /\ req.kind = "pods") =>
           response.kind = "KubernetesResponse"
    /\ ClusterRaised("ApiException") =>
          LET status == cluster_raised[2]
          IN /\ pc = "done"
             /\ response.kind = "KubernetesResponse"
             /\ response.pods = <<>>
             /\ response.pagination = <<>>
             /\ status = 404 =>
                   response.error = <<"Kubernetes API server not found.">>
             /\ status = 401 =>
                   response.error = <<"Unauthorized access to Kubernetes API.">>
             /\ status = 403 =>
                   response.error = <<"Forbidden access to Kubernetes API.">>
             /\ status = 500 =>
                   response.error = <<"Kubernetes API server internal error.">>
             /\ status \notin {404, 401, 403, 500} =>
                   /\ Len(response.error) = 4
                   /\ response.error[1] = "Kubernetes API error ("
                   /\ response.error[2] = status
                   /\ response.error[3] = "): "

\* A status without a message of its own: the generic text with the code.
C19_Witness ==
    /\ ClusterRaised("ApiException")
    /\ cluster_raised[2] = 503
    /\ response.pods = <<>>
    /\ response.error =
          <<"Kubernetes API error (", 503, "): ", "Service Unavailable">>

\* C20: without namespace list exactly one list call is issued, the
\* cluster-wide one, with limit min(page_size * 10, 1000); an exception
\* it raises ends the request with no pods and the message of the first
\* keyword found in the order connection, timeout, certificate, else
\* "Failed to get Kubernetes pods: <text>".
C20_TotalFetchFailure ==
    /\ (req.kind = "pods" /\ namespaces = <<>>) =>
          /\ Len(list_calls) <= 1
          /\ pc \in {"process", "done"} => Len(list_calls) = 1
          /\ \A i \in DOMAIN list_calls :
                /\ list_calls[i].api = "list_pod_for_all_namespaces"
                /\ list_calls[i].limit = FetchThreshold
    /\ ClusterRaised("Exception") =>
          LET text == cluster_raised[2]
          IN /\ pc = "done"
             /\ namespaces = <<>>
             /\ all_pods = <<>>
             /\ response.pods = <<>>
             /\ response.pagination = <<>>
             /\ response.error # <<>>
             /\ response.error[1] =
                   IF "connection" \in text
                   THEN "Unable to connect to Kubernetes API server."
                   ELSE IF "timeout" \in text
                   THEN "Timeout connecting to Kubernetes API server."
                   ELSE IF "certificate" \in text
                   THEN "SSL/TLS certificate error when connecting to Kubernetes API."
                   ELSE "Failed to get Kubernetes pods: "

\* A text with both connection and timeout: the connection message.
C20_Witness ==
    /\ ClusterRaised("Exception")
    /\ cluster_raised[2] = {"connection", "timeout"}
    /\ Len(list_calls) = 1
    /\ list_calls[1].limit = FetchThreshold
    /\ response.error = <<"Unable to connect to Kubernetes API server.">>

\* C21: within a pods request the namespace calls are issued one at a
\* time, in the order of the namespace list, one call per list entry;
\* each call has returned or failed before the next is issued, and a
\* failed call is not issued again.
C21_SequentialFanOut ==
    /\ [](req.kind = "pods" /\ namespaces # <<>> =>
            /\ Len(list_calls) <= Len(namespaces)
            /\ Len(list_calls) = ns_index - 1
            /\ \A i \in DOMAIN list_calls :
                  /\ list_calls[i].api = "list_namespaced_pod"
                  /\ list_calls[i].namespace = namespaces[i])
    /\ [][(req.kind = "pods" /\ pc = "fetch_namespaces") =>
             /\ Len(list_calls') = Len(list_calls) + 1
             /\ SubSeq(list_calls', 1, Len(list_calls)) = list_calls]_vars

\* The call for the first entry failed; the second call is for the
\* second entry, another namespace.
C21_Witness ==
    /\ req.kind = "pods"
    /\ namespaces = <<"b", "a">>
    /\ Len(list_calls) = 2
    /\ list_calls[1].raised
    /\ list_calls[1].namespace = "b"
    /\ list_calls[2].namespace = "a"

C25_NoProtectedPodDeleted ==
    \A i \in DOMAIN delete_calls :
        delete_calls[i].phase_at_call \notin ProtectedPhases

\* C26: the fetch stage flags the cap only when at least
\* min(page_size * 10, 1000) raw pods were fetched, so the second branch
\* of the truncation policy is never the one taken; in a successful
\* response the top-level flag, the pagination flag and "raw count >=
\* min(page_size * 10, 1000)" are all true or all false, total_items is
\* 1000 when they are true, and then it is 1000 also when more than 1000
\* records passed the filter.
C26_TruncationSignalsCoincide ==
    /\ (req.kind = "pods" /\ pc = "process" /\ max_limit_reached) =>
           Len(all_pods) >= FetchThreshold
    /\ PodsSucceeded =>
          /\ response.max_limit_reached
                = response.pagination.max_limit_reached
          /\ response.max_limit_reached = (Len(all_pods) >= FetchThreshold)
          /\ response.max_limit_reached =>
                response.pagination.total_items = 1000
          /\ response.pagination.total_items <= Max(1000, Len(pods))
          /\ Len(pods) > 1000 => response.pagination.total_items = 1000

\* 1999 pods pass the filter, 1000 are reported.
C26_Witness ==
    /\ PodsSucceeded
    /\ Len(pods) > 1000
    /\ response.max_limit_reached
    /\ response.pagination.max_limit_reached
    /\ response.pagination.total_items = 1000

\* C27: the list calls answering with at most their limit, a request
\* without namespace list accumulates at most 1000 raw pods, a request
\* with one at most 999 + page_size, and no namespace call is issued
\* once the accumulated total is 1000 or more.
C27_FetchBound ==
    req.kind = "pods" =>
        /\ \A i \in DOMAIN list_calls :
              list_calls[i].returned <= list_calls[i].limit
        /\ namespaces = <<>> => Len(all_pods) <= 1000
        /\ namespaces # <<>> => Len(all_pods) <= 999 + req.page_size
        /\ \A i \in DOMAIN list_calls :
              (namespaces # <<>> /\ i > 1) => RunningTotal(i - 1) < 1000

\* The bound is met: 999 pods of the first namespace, then a full page
\* of 1000 of the second.
C27_Witness ==
    /\ req.kind = "pods"
    /\ pc = "done"
    /\ namespaces = <<"a", "b">>
    /\ req.page_size = 1000
    /\ list_calls[1].returned = 999
    /\ Len(all_pods) = 999 + req.page_size

\* C28 as stated: no pod is listed twice in the records of a
\* successful pods request, whatever the namespace filter, one that
\* names a namespace twice included.
C28_NoPodListedTwice ==
    PodsSucceeded =>
        Cardinality({pods[i].id : i \in DOMAIN pods}) = Len(pods)

\* C29: when every namespace of a non-empty namespace list was asked
\* and every call failed, by an ApiException of any status or by another
\* exception, the response has the shape of a success: no error, no
\* pods, total_items 0, total_pages 1, has_next false and
\* max_limit_reached false.  An error response is made only of a failure
\* outside the namespace calls.
C29_AllNamespacesFail ==
    /\ (pc = "done" /\ req.kind = "pods" /\ namespaces # <<>>
          /\ Len(fan_out_raised) = Len(namespaces)
          /\ \A i \in DOMAIN fan_out_raised : fan_out_raised[i] # <<>>) =>
            /\ response.kind = "KubernetesResponse"
            /\ response.error = <<>>
            /\ response.pods = <<>>
            /\ response.pagination.total_items = 0
            /\ response.pagination.total_pages = 1
            /\ ~response.pagination.has_next
            /\ ~response.max_limit_reached
            /\ ~response.pagination.max_limit_reached
    /\ (pc = "done" /\ req.kind = "pods" /\ response.error # <<>>) =>
            /\ namespaces = <<>>
            /\ cluster_raised # <<>>

\* Two namespaces, the first call ends in a 401 and the second in a
\* 403; the response reports no error.
C29_Witness ==
    /\ pc = "done"
    /\ req.kind = "pods"
    /\ Len(namespaces) = 2
    /\ fan_out_raised = << <<"ApiException", 401>>, <<"ApiException", 403>> >>
    /\ response.error = <<>>
    /\ response.pagination.total_items = 0

\* A URL of the form http://<metadata host>/...: no port, a path.
ImdsTarget(u) ==
    /\ u.scheme = "http"
    /\ u.host \in {"169.254.169.254", "[fd00:ec2::254]",
                   "metadata.google.internal"}
    /\ u.port = ""
    /\ u.path # <<>>

\* C24: a relay request whose URL matches one of the metadata-service
\* patterns is answered by the 403 response with the IMDS error, which
\* no other relay request gets, and in that call no session is obtained
\* and no outbound request is sent; a session is obtained and a request
\* is sent only after the check has found no match.
C24_ImdsBlocked ==
    req.kind = "relay" =>
        /\ ImdsTarget(req.url) =>
              /\ pc = "done"
              /\ response = ImdsDeniedResponse
              /\ response.status_code = 403
              /\ relay_session = <<>>
              /\ outbound = <<>>
        /\ relay_session # <<>> => ~ImdsTarget(req.url)
        /\ outbound # <<>> => relay_session # <<>>
        /\ (pc = "done" /\ ~ImdsTarget(req.url)) =>
              /\ response # ImdsDeniedResponse
              /\ Len(outbound) = 1

\* The GCP metadata host is asked for and refused without a request.
C24_Witness ==
    /\ pc = "done"
    /\ req.kind = "relay"
    /\ req.url.host = "metadata.google.internal"
    /\ req.url.path = <<"/", "latest/meta-data">>
    /\ response.status_code = 403
    /\ response.error # <<>>
    /\ outbound = <<>>
    /\ relay_session = <<>>

\* The status code the frontend entry is to carry after the probe.
FrontendCode(outcome) ==
    CASE outcome[1] = "status" -> outcome[2]
      [] "TimeoutError" \in outcome[2] -> 503
      [] "ClientError" \in outcome[2] -> 408
      [] OTHER -> 500

\* C30: in every /health response the overall status is "unhealthy"
\* when the frontend or the backend entry is "unhealthy" and "healthy"
\* otherwise; the backend entry is healthy; the HTTP status code is 200
\* exactly when the overall status is healthy, and otherwise the status
\* code of the frontend entry: the code the frontend answered, 503 for a
\* timeout, 408 for a client error that is no timeout, 500 for any other
\* exception.
C30_CompositeHealth ==
    (pc = "done" /\ req.kind = "health") =>
        LET health == response.body
            code == FrontendCode(outbound[1].outcome)
        IN /\ health.status \in {"healthy", "unhealthy"}
           /\ (health.status = "unhealthy") =
                 (health.frontend.status = "unhealthy"
                  \/ health.backend.status = "unhealthy")
           /\ health.backend.status = "healthy"
           /\ (response.status_code = 200) = (health.status = "healthy")
           /\ (health.frontend.status = "unhealthy") = (code # 200)
           /\ health.status = "unhealthy" =>
                 /\ response.status_code = code
                 /\ health.frontend.status_code
                       = <<code \div 100, (code \div 10) % 10, code % 10>>

\* The probe ends in an exception that is a timeout and a client error:
\* the answer is 503.
C30_Witness ==
    /\ pc = "done"
    /\ req.kind = "health"
    /\ outbound[1].outcome[1] = "raise"
    /\ outbound[1].outcome[2] = {"TimeoutError", "ClientError"}
    /\ response.status_code = 503
    /\ response.body.status = "unhealthy"

=============================================================================
